---- MODULE Spec2Model ----
(***************************************************************************)
(* A model of conf_loader_with_validation (src/src/lib.rs): the ConfList   *)
(* linked list with its dotted-key insertion (add_value), the line and     *)
(* schema tokenizers, the value coercion and the parse orchestration.      *)
(*                                                                         *)
(* Strings are sequences of one-character strings, so that trimming and    *)
(* splitting are computed the way the code computes them.                  *)
(***************************************************************************)
EXTENDS Integers, Sequences, FiniteSets, TLC

VARIABLES
    map,        \* the ConfList under construction (head node first)
    prev,       \* the ConfList before the last add_value call
    call,       \* the arguments of the last add_value call, or NoCall
    tree,       \* the map-based tree of the specification (section 4.4)
    nops,       \* number of add_value calls made
    pc,         \* position of parse: "idle", "schema", "conf", "done"
    args,       \* the arguments and environment of the parse call
    schema,     \* HashMap<String, SchemaType> built by parse_schema
    line,       \* the last line read from the file being consumed
    nread,      \* number of config lines read by parse_conf
    nschema,    \* number of schema lines read by parse_schema
    result      \* what parse gave its caller: "none", "Ok", "Err", "panic"

vars == <<map, prev, call, tree, nops, pc, args, schema, line, nread, nschema, result>>

(***************************************************************************)
(* Bounds                                                                  *)
(***************************************************************************)
MaxOps == 3
MaxDepth == 2
MaxConfLines == 2
MaxSchemaLines == 1

SegNames == {"a", "b"}

(***************************************************************************)
(* ConfValue                                                               *)
(***************************************************************************)
StrValue(s) == [tag |-> "StrValue", s |-> s]
BoolValue(b) == [tag |-> "BoolValue", b |-> b]
NumberValue(n) == [tag |-> "NumberValue", n |-> n]
Conf(l) == [tag |-> "Conf", list |-> l]

Node(k, v) == [key |-> k, value |-> v]

ConfListNew == << >>

(***************************************************************************)
(* ConfList                                                                *)
(***************************************************************************)
ContainsKeyNever(list, key) == FALSE

ContainsKey(list, key) == \E i \in 1..Len(list) : list[i].key = key

GetIndexLast(list, key) ==
    IF \E i \in 1..Len(list) : list[i].key = key
    THEN CHOOSE i \in 1..Len(list) :
            /\ list[i].key = key
            /\ \A j \in (i+1)..Len(list) : list[j].key # key
    ELSE 0

\* The position of the node ConfList::get hands out: the first one from the
\* head whose key matches; 0 stands for None.
GetIndex(list, key) ==
    IF \E i \in 1..Len(list) : list[i].key = key
    THEN CHOOSE i \in 1..Len(list) :
            /\ list[i].key = key
            /\ \A j \in 1..(i-1) : list[j].key # key
    ELSE 0

InsertAtTail(list, key, value) == list \o <<Node(key, value)>>

Insert(list, key, value) == <<Node(key, value)>> \o list

\* s.splitn(2, ch): the pieces before and after the first ch, or s alone.
SplitN2(s, ch) ==
    IF \E i \in 1..Len(s) : s[i] = ch
    THEN LET i == CHOOSE i \in 1..Len(s) :
                    /\ s[i] = ch
                    /\ \A j \in 1..(i-1) : s[j] # ch
         IN  <<SubSeq(s, 1, i-1), SubSeq(s, i+1, Len(s))>>
    ELSE <<s>>

RECURSIVE AddValue(_, _, _)
AddValue(list, key, value) ==
    LET keys == SplitN2(key, ".") IN
    IF Len(keys) = 1
    THEN Insert(list, key, value)
    ELSE IF ContainsKey(list, keys[1])
         THEN LET i == GetIndex(list, keys[1])
                  conf_value == list[i].value
              IN  IF conf_value.tag = "Conf"
                  THEN [list EXCEPT ![i].value =
                            Conf(AddValue(conf_value.list, keys[2], value))]
                  ELSE Insert(list, keys[1],
                              Conf(AddValue(ConfListNew, keys[2], value)))
         ELSE Insert(list, keys[1], Conf(AddValue(ConfListNew, keys[2], value)))

(***************************************************************************)
(* The map-based tree of the specification (section 4.4, insert_path)      *)
(***************************************************************************)
Table(t) == [tag |-> "Table", t |-> t]

EmptyTree == [x \in {} |-> 0]

Put(t, k, v) == [x \in (DOMAIN t) \cup {k} |-> IF x = k THEN v ELSE t[x]]

HasDot(key) == \E i \in 1..Len(key) : key[i] = "."

RECURSIVE HeadOf(_)
HeadOf(key) ==
    IF key = << >> \/ Head(key) = "." THEN << >>
    ELSE <<Head(key)>> \o HeadOf(Tail(key))

RestOf(key) == SubSeq(key, Len(HeadOf(key)) + 2, Len(key))

RECURSIVE InsertPath(_, _, _)
InsertPath(t, key, value) ==
    IF ~HasDot(key)
    THEN Put(t, key, value)
    ELSE LET head == HeadOf(key)
             rest == RestOf(key)
         IN  IF head \notin DOMAIN t
             THEN Put(t, head, Table(InsertPath(EmptyTree, rest, value)))
             ELSE IF t[head].tag = "Table"
                  THEN Put(t, head, Table(InsertPath(t[head].t, rest, value)))
                  ELSE Put(t, head, Table(InsertPath(EmptyTree, rest, value)))

(***************************************************************************)
(* Inputs of the add_value calls                                           *)
(***************************************************************************)
RECURSIVE KeysOfDepth(_)
KeysOfDepth(d) ==
    IF d = 1 THEN {<<s>> : s \in SegNames}
    ELSE {<<s, ".">> \o k : s \in SegNames, k \in KeysOfDepth(d - 1)}

Keys == UNION {KeysOfDepth(d) : d \in 1..MaxDepth}

Values == {StrValue(<<"x">>), BoolValue(TRUE)}

NoCall == [key |-> << >>]

(***************************************************************************)
(* add_value called any number of times on a ConfList that starts empty    *)
(***************************************************************************)
ParseIdle ==
    /\ pc = "idle"
    /\ args = [schema_path |-> "None", schema_opens |-> FALSE, conf_opens |-> FALSE]
    /\ schema = EmptyTree
    /\ line = << >>
    /\ nread = 0
    /\ nschema = 0
    /\ result = "none"

Init ==
    /\ map = ConfListNew
    /\ prev = ConfListNew
    /\ call = NoCall
    /\ tree = EmptyTree
    /\ nops = 0
    /\ ParseIdle

CallAddValue(key, value) ==
    /\ map' = AddValue(map, key, value)
    /\ prev' = map
    /\ call' = [key |-> key, value |-> value]
    /\ tree' = InsertPath(tree, key, value)
    /\ nops' = nops + 1

AddValueStep ==
    /\ pc = "idle"
    /\ nops < MaxOps
    /\ \E key \in Keys, value \in Values : CallAddValue(key, value)
    /\ UNCHANGED <<pc, args, schema, line, nread, nschema, result>>

Next == AddValueStep

Spec == Init /\ [][Next]_vars

(***************************************************************************)
(* Reading the tree                                                        *)
(***************************************************************************)
NotFound == [tag |-> "None"]

IsScalar(v) == v.tag \in {"StrValue", "BoolValue", "NumberValue"}

\* The segments of a dotted key.
RECURSIVE Segs(_)
Segs(key) == IF HasDot(key) THEN <<HeadOf(key)>> \o Segs(RestOf(key)) ELSE <<key>>

\* ConfList::get at each level, descending through Conf tables.
RECURSIVE LookupPath(_, _)
LookupPath(list, segs) ==
    LET i == GetIndex(list, segs[1]) IN
    IF i = 0 THEN NotFound
    ELSE IF Len(segs) = 1 THEN list[i].value
    ELSE IF list[i].value.tag = "Conf"
         THEN LookupPath(list[i].value.list, Tail(segs))
         ELSE NotFound

\* What lookups see of a ConfList: a key is present iff contains_key is true
\* and maps to the value get returns, taken recursively through Conf tables.
RECURSIVE View(_)
View(list) ==
    [k \in {list[i].key : i \in 1..Len(list)} |->
        LET v == list[GetIndex(list, k)].value
        IN  IF v.tag = "Conf" THEN Table(View(v.list)) ELSE v]

RECURSIVE AllLevelsUnique(_)
AllLevelsUnique(list) ==
    /\ \A i, j \in 1..Len(list) : list[i].key = list[j].key => i = j
    /\ \A i \in 1..Len(list) :
          list[i].value.tag = "Conf" => AllLevelsUnique(list[i].value.list)

IsPrefix(p, q) == Len(p) <= Len(q) /\ SubSeq(q, 1, Len(p)) = p

RECURSIVE PathsOfLen(_)
PathsOfLen(n) ==
    IF n = 0 THEN {<< >>}
    ELSE {<<<<s>>>> \o p : s \in SegNames, p \in PathsOfLen(n - 1)}

Paths == UNION {PathsOfLen(n) : n \in 1..MaxDepth}

CallSegs == Segs(call.key)

(***************************************************************************)
(* C1. After any sequence of add_value calls from an empty tree, no two    *)
(* entries of one tree level (the top-level list or any nested Conf list)  *)
(* share a key segment.  Stated as the claim states it; the code prepends  *)
(* a node on every insert and never removes one.                           *)
(***************************************************************************)
C1_NoDuplicateKeys == AllLevelsUnique(map)

(***************************************************************************)
(* C2. Round trip: after add_value(k, v) the lookup that follows the       *)
(* segments of k through ConfList::get returns v.                          *)
(***************************************************************************)
C2_RoundTrip == call # NoCall => LookupPath(map, CallSegs) = call.value

\* The call went below a head that held a scalar, or replaced a key that was there.
C2_Witness ==
    /\ call # NoCall
    /\ LookupPath(prev, <<CallSegs[1]>>) # NotFound
    /\ IsScalar(LookupPath(prev, <<CallSegs[1]>>))
    /\ Len(CallSegs) > 1
    /\ LookupPath(map, CallSegs) = call.value

(***************************************************************************)
(* C3. Scalar-to-table conflict: when a proper prefix of the inserted key  *)
(* holds a scalar, the prefix holds a table afterwards and the scalar is   *)
(* not kept beside it: at the level of the conflict the only entry with    *)
(* that segment is the new table.  Stated as the claim states it.          *)
(***************************************************************************)
ConflictAt(n) ==
    /\ n < Len(CallSegs)
    /\ IsScalar(LookupPath(prev, SubSeq(CallSegs, 1, n)))

LevelOf(list, n) ==
    IF n = 1 THEN list ELSE LookupPath(list, SubSeq(CallSegs, 1, n - 1)).list

C3_ScalarDiscarded ==
    call # NoCall =>
        \A n \in 1..Len(CallSegs) :
            ConflictAt(n) =>
                /\ LookupPath(map, CallSegs) = call.value
                /\ LET level == LevelOf(map, n) IN
                   \A i \in 1..Len(level) :
                       level[i].key = CallSegs[n] =>
                           /\ level[i].value.tag = "Conf"
                           /\ i = GetIndex(level, CallSegs[n])

(***************************************************************************)
(* C8. Nested insertion into an existing table preserves siblings: the     *)
(* table under head is changed in place, every other entry of the          *)
(* enclosing level is unchanged, and every key under head whose path is    *)
(* neither on the inserted path nor below it keeps its value.              *)
(***************************************************************************)
\* The last call was nested and its head segment held a table.
HeadHoldsTable ==
    /\ call # NoCall
    /\ HasDot(call.key)
    /\ LookupPath(prev, <<HeadOf(call.key)>>).tag = "Conf"

Unrelated(p, rest) == ~IsPrefix(p, rest) /\ ~IsPrefix(rest, p)

C8_SiblingsPreserved ==
    HeadHoldsTable =>
        LET i == GetIndex(prev, HeadOf(call.key))
            rest == Segs(RestOf(call.key))
            before == prev[i].value.list
            after == map[i].value.list
        IN  /\ Len(map) = Len(prev)
            /\ \A j \in 1..Len(prev) : j # i => map[j] = prev[j]
            /\ map[i].key = prev[i].key
            /\ map[i].value.tag = "Conf"
            /\ \A p \in Paths :
                  (Unrelated(p, rest) /\ LookupPath(before, p) # NotFound)
                      => LookupPath(after, p) = LookupPath(before, p)

\* A sibling was there under head, and another entry beside head.
C8_Witness ==
    /\ HeadHoldsTable
    /\ Len(prev) > 1
    /\ LET i == GetIndex(prev, HeadOf(call.key))
           rest == Segs(RestOf(call.key))
       IN  \E p \in Paths :
              /\ Unrelated(p, rest)
              /\ LookupPath(prev[i].value.list, p) # NotFound
              /\ LookupPath(map[i].value.list, p) = LookupPath(prev[i].value.list, p)

(***************************************************************************)
(* C10. Refinement: what lookups see of the linked list is the tree the    *)
(* map-based insert_path of the specification builds from the same calls;  *)
(* shadowed nodes take no part in it.                                      *)
(***************************************************************************)
C10_ViewIsTree == View(map) = tree

\* A call made on a list that already held a shadowed node.
C10_Witness ==
    /\ call # NoCall
    /\ ~AllLevelsUnique(prev)
    /\ View(map) # View(prev)

(***************************************************************************)
(* Tokenizers                                                              *)
(***************************************************************************)
WhiteSpace == {" "}

RECURSIVE TrimStart(_)
TrimStart(s) ==
    IF s # << >> /\ Head(s) \in WhiteSpace THEN TrimStart(Tail(s)) ELSE s

RECURSIVE TrimEnd(_)
TrimEnd(s) ==
    IF s # << >> /\ s[Len(s)] \in WhiteSpace
    THEN TrimEnd(SubSeq(s, 1, Len(s) - 1))
    ELSE s

\* str::trim
Trim(s) == TrimEnd(TrimStart(s))

\* Option<KeyValue>: None is the empty tuple, Some((key, value)) a pair.
None == << >>

ParseLineNoComment(ln) ==
    LET l == Trim(ln) IN
    IF l = << >> THEN None
    ELSE LET vec == SplitN2(ln, "=") IN
         IF Len(vec) # 2 THEN None
         ELSE LET key == Trim(vec[1])
                  value == Trim(vec[2])
              IN  IF key = << >> \/ value = << >> THEN None
                  ELSE <<key, value>>

ParseLine(ln) ==
    LET l == Trim(ln) IN
    IF l = << >> THEN None
    ELSE IF Head(l) = "#" \/ Head(l) = ";" THEN None
    ELSE LET vec == SplitN2(ln, "=") IN
         IF Len(vec) # 2 THEN None
         ELSE LET key == Trim(vec[1])
                  value == Trim(vec[2])
              IN  IF key = << >> \/ value = << >> THEN None
                  ELSE <<key, value>>

\* split_by_str(s, "->"): None when s holds no "->", else the pieces before
\* and after the first one.
SplitByArrow(s) ==
    IF \E i \in 1..(Len(s) - 1) : s[i] = "-" /\ s[i+1] = ">"
    THEN LET i == CHOOSE i \in 1..(Len(s) - 1) :
                    /\ s[i] = "-" /\ s[i+1] = ">"
                    /\ \A j \in 1..(i-1) : ~(s[j] = "-" /\ s[j+1] = ">")
         IN  <<SubSeq(s, 1, i-1), SubSeq(s, i+2, Len(s))>>
    ELSE None

ParseSchemaLine(ln) ==
    LET l == Trim(ln) IN
    IF l = << >> THEN None
    ELSE LET vec == SplitByArrow(l) IN
         IF vec = None THEN None
         ELSE IF Len(vec) # 2 THEN None
         ELSE LET key == Trim(vec[1])
                  value == Trim(vec[2])
              IN  IF key = << >> \/ value = << >> THEN None
                  ELSE <<key, value>>

(***************************************************************************)
(* SchemaType and the coercion of values                                   *)
(***************************************************************************)
StrString == <<"s", "t", "r", "i", "n", "g">>
StrBool == <<"b", "o", "o", "l">>
StrNumber == <<"n", "u", "m", "b", "e", "r">>
StrTrue == <<"t", "r", "u", "e">>
StrFalse == <<"f", "a", "l", "s", "e">>

Ok(v) == [ok |-> TRUE, value |-> v]
Err(e) == [ok |-> FALSE, err |-> e]

FromStrLenient(s) ==
    IF s = StrString THEN Ok("String")
    ELSE IF s = StrBool THEN Ok("Bool")
    ELSE IF s = StrNumber THEN Ok("Number")
    ELSE Ok("String")

\* impl FromStr for SchemaType
FromStr(s) ==
    IF s = StrString THEN Ok("String")
    ELSE IF s = StrBool THEN Ok("Bool")
    ELSE IF s = StrNumber THEN Ok("Number")
    ELSE Err("Invalid type")

Digits == <<"0", "1", "2", "3", "4", "5", "6", "7", "8", "9">>

IsDigit(c) == \E i \in 1..Len(Digits) : Digits[i] = c

DigitValue(c) == (CHOOSE i \in 1..Len(Digits) : Digits[i] = c) - 1

RECURSIVE DecimalValue(_)
DecimalValue(s) ==
    IF s = << >> THEN 0
    ELSE DecimalValue(SubSeq(s, 1, Len(s) - 1)) * Len(Digits) + DigitValue(s[Len(s)])

\* f64::from_str on the strings the model reads: an optional sign and one or
\* more decimal digits is a number; the strings of the model hold no decimal
\* point and no exponent, and none of them spells inf, infinity or nan.
F64FromStr(s) ==
    LET body == IF s # << >> /\ Head(s) \in {"+", "-"} THEN Tail(s) ELSE s IN
    IF body # << >> /\ \A i \in 1..Len(body) : IsDigit(body[i])
    THEN Ok(IF s[1] = "-" THEN 0 - DecimalValue(body) ELSE DecimalValue(body))
    ELSE Err("invalid float literal")

ValidateAsStr(s, t) == Ok(StrValue(s))

Validate(s, t) ==
    IF t = "String" THEN Ok(StrValue(s))
    ELSE IF t = "Bool"
         THEN IF s = StrTrue THEN Ok(BoolValue(TRUE))
              ELSE IF s = StrFalse THEN Ok(BoolValue(FALSE))
              ELSE Err("Invalid boolean value")
    ELSE IF F64FromStr(s).ok
         THEN Ok(NumberValue(F64FromStr(s).value))
         ELSE Err("Invalid number value")

(***************************************************************************)
(* The files parse reads: each line is drawn from these sets               *)
(***************************************************************************)
LineKeys == {<< >>, <<"a">>, <<"a", ".", "b">>}

ConfSeps == {<< >>, <<" ", "=", " ">>}

ConfVals == {<< >>, StrTrue, <<"1">>, <<"x">>}

ConfLines ==
    {k \o sep \o v : k \in LineKeys, sep \in ConfSeps, v \in ConfVals}
    \cup {<<" ", " ">>,
          <<"#", "a", "=", "x">>,
          <<" ", ";", "a", "=", "x">>,
          <<"a", "=", "x", "=", "1">>,
          <<"a", ".", "=", "x">>,
          <<".", "=", "x">>}

SchemaSeps == {<< >>, <<" ", "-", ">", " ">>}

SchemaTypeNames == {<< >>, StrString, StrBool, StrNumber, StrBool \o <<"e", "a", "n">>}

SchemaLines ==
    {k \o sep \o t : k \in LineKeys, sep \in SchemaSeps, t \in SchemaTypeNames}

ParseArgs ==
    {[schema_path |-> "None", schema_opens |-> FALSE, conf_opens |-> c] : c \in BOOLEAN}
    \cup {[schema_path |-> "Some", schema_opens |-> o, conf_opens |-> c] :
            o \in BOOLEAN, c \in BOOLEAN}

(***************************************************************************)
(* parse(file_path, schema_path)                                           *)
(***************************************************************************)
InitParse ==
    /\ map = ConfListNew
    /\ prev = ConfListNew
    /\ call = NoCall
    /\ tree = EmptyTree
    /\ nops = 0
    /\ pc = "parse"
    /\ args \in ParseArgs
    /\ schema = EmptyTree
    /\ line = << >>
    /\ nread = 0
    /\ nschema = 0
    /\ result = "none"

\* parse: match schema_path
ParseEnter ==
    /\ pc = "parse"
    /\ pc' = IF args.schema_path = "Some" THEN "schema" ELSE "conf"
    /\ UNCHANGED <<map, prev, call, tree, nops, args, schema, line, nread, nschema, result>>

\* parse_schema: read_lines gave Err, the map stays empty and Ok(map) is returned
SchemaOpenFails ==
    /\ pc = "schema"
    /\ ~args.schema_opens
    /\ pc' = "conf"
    /\ UNCHANGED <<map, prev, call, tree, nops, args, schema, line, nread, nschema, result>>

\* parse_schema: one turn of the loop over the lines of the schema file
SchemaLine ==
    /\ pc = "schema"
    /\ args.schema_opens
    /\ nschema < MaxSchemaLines
    /\ \E ln \in SchemaLines :
          LET key_value == ParseSchemaLine(ln) IN
          /\ line' = ln
          /\ nschema' = nschema + 1
          /\ IF key_value = None
             THEN UNCHANGED <<schema, pc, result>>
             ELSE LET type_enum == FromStr(key_value[2]) IN
                  IF ~type_enum.ok
                  THEN /\ result' = "Err"
                       /\ pc' = "done"
                       /\ UNCHANGED schema
                  ELSE /\ schema' = Put(schema, key_value[1], type_enum.value)
                       /\ UNCHANGED <<pc, result>>
    /\ UNCHANGED <<map, prev, call, tree, nops, args, nread>>

\* parse_schema: the lines are exhausted, Ok(map); parse goes on to parse_conf
SchemaEnd ==
    /\ pc = "schema"
    /\ args.schema_opens
    /\ pc' = "conf"
    /\ line' = << >>
    /\ UNCHANGED <<map, prev, call, tree, nops, args, schema, nread, nschema, result>>

\* parse_conf: read_lines gave Err, the empty map is returned and parse wraps it in Ok
ConfOpenFails ==
    /\ pc = "conf"
    /\ ~args.conf_opens
    /\ result' = "Ok"
    /\ pc' = "done"
    /\ UNCHANGED <<map, prev, call, tree, nops, args, schema, line, nread, nschema>>

\* parse_conf: one turn of the loop over the lines of the config file
ConfLine ==
    /\ pc = "conf"
    /\ args.conf_opens
    /\ nread < MaxConfLines
    /\ \E ln \in ConfLines :
          LET key_value == ParseLine(ln) IN
          /\ line' = ln
          /\ nread' = nread + 1
          /\ IF key_value = None
             THEN UNCHANGED <<map, prev, call, tree, nops, pc, result>>
             ELSE LET key == key_value[1]
                      value == key_value[2]
                      typed_value ==
                          IF key \in DOMAIN schema
                          THEN Validate(value, schema[key])
                          ELSE Ok(StrValue(value))
                  IN  IF ~typed_value.ok
                      THEN \* validate(..).unwrap() panics
                           /\ result' = "panic"
                           /\ pc' = "done"
                           /\ UNCHANGED <<map, prev, call, tree, nops>>
                      ELSE /\ CallAddValue(key, typed_value.value)
                           /\ UNCHANGED <<pc, result>>
    /\ UNCHANGED <<args, schema, nschema>>

\* parse_conf: the lines are exhausted, parse returns Ok(map)
ConfEnd ==
    /\ pc = "conf"
    /\ args.conf_opens
    /\ result' = "Ok"
    /\ pc' = "done"
    /\ UNCHANGED <<map, prev, call, tree, nops, args, schema, line, nread, nschema>>

NextParse ==
    \/ ParseEnter
    \/ SchemaOpenFails
    \/ SchemaLine
    \/ SchemaEnd
    \/ ConfOpenFails
    \/ ConfLine
    \/ ConfEnd

SpecParse == InitParse /\ [][NextParse]_vars

(***************************************************************************)
(* Reading the state of parse                                              *)
(***************************************************************************)
\* The last line read is a config line (parse_conf has read at least one).
ConfLineRead == nread > 0

LineKV == ParseLine(line)

Declared == ConfLineRead /\ LineKV # None /\ LineKV[1] \in DOMAIN schema

\* The value of the last config line does not coerce to the declared type.
CoercionFails ==
    /\ Declared
    /\ \/ schema[LineKV[1]] = "Bool" /\ LineKV[2] \notin {StrTrue, StrFalse}
       \/ schema[LineKV[1]] = "Number" /\ ~F64FromStr(LineKV[2]).ok

IsBlank(s) == \A i \in 1..Len(s) : s[i] \in WhiteSpace

\* The shapes of line the tokenizer is to skip, read off the characters.
IsCommentLine(ln) ==
    \E i \in 1..Len(ln) : ln[i] \in {"#", ";"} /\ IsBlank(SubSeq(ln, 1, i - 1))

HasNoEquals(ln) == \A i \in 1..Len(ln) : ln[i] # "="

HasEmptyKey(ln) ==
    \E i \in 1..Len(ln) : ln[i] = "=" /\ IsBlank(SubSeq(ln, 1, i - 1))

HasEmptyValue(ln) ==
    \E i \in 1..Len(ln) :
        /\ ln[i] = "="
        /\ HasNoEquals(SubSeq(ln, 1, i - 1))
        /\ IsBlank(SubSeq(ln, i + 1, Len(ln)))

Skippable(ln) ==
    \/ IsBlank(ln)
    \/ IsCommentLine(ln)
    \/ HasNoEquals(ln)
    \/ HasEmptyKey(ln)
    \/ HasEmptyValue(ln)

RECURSIVE AllScalarsStr(_)
AllScalarsStr(list) ==
    \A i \in 1..Len(list) :
        IF list[i].value.tag = "Conf"
        THEN AllScalarsStr(list[i].value.list)
        ELSE list[i].value.tag = "StrValue"

(***************************************************************************)
(* C4. When the value of a config line whose key the schema declares fails *)
(* coercion, parse returns an error result to its caller.  Stated as the   *)
(* claim states it; the code unwraps the Err of validate and panics.       *)
(***************************************************************************)
C4_CoercionFailureIsErr == CoercionFails => result = "Err"

(***************************************************************************)
(* C5. When the config file cannot be opened parse fails; it never returns *)
(* Ok with an empty tree.  Stated as the claim states it; parse_conf       *)
(* ignores the Err of read_lines.                                          *)
(***************************************************************************)
C5_MissingConfIsFatal == (pc = "done" /\ ~args.conf_opens) => result = "Err"

(***************************************************************************)
(* C6. A schema line that tokenizes to a key and a type name other than    *)
(* string, bool or number makes parse fail with an error, at once: no      *)
(* config line has been read or inserted, and none is afterwards.          *)
(***************************************************************************)
UnknownTypeLine(ln) ==
    /\ ParseSchemaLine(ln) # None
    /\ ParseSchemaLine(ln)[2] \notin {StrString, StrBool, StrNumber}

C6_UnknownTypeFailsFirst ==
    /\ [][(pc = "schema" /\ nschema' = nschema + 1 /\ UnknownTypeLine(line'))
            => (pc' = "done" /\ result' = "Err")]_vars
    /\ [](result = "Err" => (pc = "done" /\ nread = 0 /\ map = ConfListNew))
    /\ [][pc = "done" => UNCHANGED vars]_vars

C6_Witness ==
    /\ pc = "done"
    /\ result = "Err"
    /\ nschema > 0
    /\ UnknownTypeLine(line)
    /\ args.conf_opens

(***************************************************************************)
(* C7. The value a config line inserts has the variant of the type the     *)
(* schema declares for its full dotted key, and is StrValue of the raw     *)
(* string when the key is not declared; with no schema every scalar of     *)
(* the tree is a StrValue.                                                 *)
(***************************************************************************)
Inserted == ConfLineRead /\ LineKV # None /\ result # "panic"

ExpectedValue ==
    IF LineKV[1] \in DOMAIN schema
    THEN IF schema[LineKV[1]] = "String" THEN StrValue(LineKV[2])
         ELSE IF schema[LineKV[1]] = "Bool" THEN BoolValue(LineKV[2] = StrTrue)
         ELSE NumberValue(F64FromStr(LineKV[2]).value)
    ELSE StrValue(LineKV[2])

C7_TypedBySchema ==
    /\ Inserted =>
          /\ call.key = LineKV[1]
          /\ call.value = ExpectedValue
          /\ LookupPath(map, Segs(LineKV[1])) = ExpectedValue
    /\ args.schema_path = "None" => AllScalarsStr(map)

\* A declared bool and a declared number were both inserted.
C7_Witness ==
    /\ Inserted
    /\ LineKV[1] \in DOMAIN schema
    /\ schema[LineKV[1]] \in {"Bool", "Number"}
    /\ call.value.tag = schema[LineKV[1]] \o "Value"
    /\ ~AllScalarsStr(map)

(***************************************************************************)
(* C9. A config line that is blank, a comment, or malformed (no =, empty   *)
(* key, empty value) leaves the tree as it was and does not end the parse. *)
(***************************************************************************)
C9_SkippedLinesChangeNothing ==
    [][(pc = "conf" /\ nread' = nread + 1 /\ Skippable(line'))
        => (map' = map /\ result' = result /\ pc' = pc)]_vars

\* A skippable line was read after a line that inserted, and parse went on.
C9_Witness ==
    /\ ConfLineRead
    /\ Skippable(line)
    /\ nops > 0
    /\ pc = "conf"

====
